---- MODULE Spec2Model ----
(***************************************************************************)
(* Token ledger (contracts/token) and constant-product liquidity pool      *)
(* (contracts/swap).  Every public entry point is a pure operator from a   *)
(* contract state to a result (the state at the point of return or panic); *)
(* an action invokes one entry point and commits or rolls back.            *)
(***************************************************************************)
EXTENDS Integers, FiniteSets, Sequences, TLC

\* ------------------------------------------------------------------ bounds
\* Largest magnitude of an amount passed to a direct ledger call.
MaxAmt == 1
\* Window of stored values explored: every stored integer stays in -MaxVal..MaxVal.
MaxVal == 2
\* The ledger sequence runs from 1 to MaxSeq.
MaxSeq == 3
\* Largest amount passed to a pool operation.
MaxPoolAmt == 2
\* What each user holds, and has approved to the pool, in the funded start.
Fund == 3
\* What each user holds, and has approved to the pool, where deposits are large.
BigFund == 500
\* What the trader holds, and swaps at once, where deposits are large.
SwapFund == 100
\* Width in bits of the two's-complement integer type explored in place of
\* the 128 bits of i128, where a claim reaches the ends of the type.
IntBits == 8
\* Largest input of a direct application of get_amount_out.
MaxCalcIn == 3

\* --------------------------------------------------------------- identities
Users == {"u1", "u2"}
POOL == "pool"
Addr == Users \cup {POOL}
NoAddr == "none"
Tok == {"A", "B"}
Pairs == Addr \X Addr
FeeChoices == {0, 30, 5000, 10000}

VARIABLES
    seq,            \* env.ledger().sequence()
    tokAdmin,       \* token DataKey::Admin, per ledger (NoAddr: not set)
    totalSupply,    \* token DataKey::TotalSupply
    balances,       \* token DataKey::Balance(addr)
    allowances,     \* token DataKey::Allowance(from, spender): the entries that
                    \* exist, each with its amount and the ledger sequence
                    \* number until which the storage keeps it (live)
    poolAdmin,      \* swap DataKey::Admin (NoAddr: not set)
    tokenA,         \* swap DataKey::TokenA
    tokenB,         \* swap DataKey::TokenB
    reserveA,       \* swap DataKey::ReserveA
    reserveB,       \* swap DataKey::ReserveB
    totalShares,    \* swap DataKey::TotalShares
    providerShares, \* swap DataKey::Shares(addr)
    feeBps,         \* swap DataKey::Fee
    last            \* the last invocation: entry point, arguments, outcome

vars == <<seq, tokAdmin, totalSupply, balances, allowances, poolAdmin,
          tokenA, tokenB, reserveA, reserveB, totalShares, providerShares, feeBps, last>>

\* The contract storage as one value, handed to the entry points.
Cur ==
    [seq |-> seq, tokAdmin |-> tokAdmin, totalSupply |-> totalSupply,
     balances |-> balances, allowances |-> allowances,
     poolAdmin |-> poolAdmin, tokenA |-> tokenA, tokenB |-> tokenB,
     reserveA |-> reserveA, reserveB |-> reserveB, totalShares |-> totalShares,
     providerShares |-> providerShares, feeBps |-> feeBps]

\* A panic: the invocation traps in state s (the writes made so far included).
Panic(s, e) == [ok |-> FALSE, err |-> e, at |-> "", st |-> s, r1 |-> 0, r2 |-> 0]
\* The panic of a nested call into a ledger, made at the call site `at`,
\* panics the calling invocation.
Nested(at, res) == [res EXCEPT !.at = at]
\* A normal return with up to two returned numbers.
Return(s, a, b) == [ok |-> TRUE, err |-> "", at |-> "", st |-> s, r1 |-> a, r2 |-> b]

\* Rust integer division: truncates toward zero (the divisor is not zero).
TruncDiv(a, b) ==
    IF (a >= 0) = (b > 0)
    THEN (IF a >= 0 THEN a ELSE -a) \div (IF b > 0 THEN b ELSE -b)
    ELSE -((IF a >= 0 THEN a ELSE -a) \div (IF b > 0 THEN b ELSE -b))

\* <<q, r>> with x * n = q * d + r and 0 <= r < d, for x >= 0, n >= 0, d > 0:
\* the i128 product x * n divided by d, computed by halving n so that no
\* intermediate value exceeds 2 * d + x.
RECURSIVE MulDivRem(_, _, _)
MulDivRem(x, n, d) ==
    IF n = 0 THEN <<0, 0>>
    ELSE LET h == MulDivRem(x, n \div 2, d)
             t == 2 * h[2] + (n % 2) * x
         IN  <<2 * h[1] + (t \div d), t % d>>

Abs(a) == IF a >= 0 THEN a ELSE -a

\* Rust (a * b) / d on i128: the product's quotient truncated toward zero
\* (d is not zero).
MulTruncDiv(a, b, d) ==
    LET q == MulDivRem(Abs(a), Abs(b), Abs(d))[1]
    IN  IF a = 0 \/ b = 0 \/ ((a > 0) = (b > 0)) = (d > 0) THEN q ELSE -q

Min(a, b) == IF a <= b THEN a ELSE b

Max(a, b) == IF a >= b THEN a ELSE b

\* ------------------------------------------------------------ token ledger
balance(s, t, id) == s.balances[t][id]

\* unwrap_or(0): an entry that does not exist reads as 0.
allowance(s, t, from, spender) ==
    IF <<from, spender>> \in DOMAIN s.allowances[t]
    THEN s.allowances[t][<<from, spender>>].amount ELSE 0

total_supply(s, t) == s.totalSupply[t]

SetBalance(s, t, id, v) == [s EXCEPT !.balances[t][id] = v]

\* persistent().set: an existing entry keeps its live-until ledger, a new one
\* is kept at least through the current ledger.
SetAllowance(s, t, from, spender, v) ==
    LET key == <<from, spender>>
        old == s.allowances[t]
        live == IF key \in DOMAIN old THEN old[key].live ELSE s.seq
    IN  [s EXCEPT !.allowances[t] =
            [k \in DOMAIN old \cup {key} |->
                IF k = key THEN [amount |-> v, live |-> live] ELSE old[k]]]

token_initialize(s, t, admin) ==
    IF s.tokAdmin[t] # NoAddr THEN Panic(s, "already initialized")
    ELSE Return([s EXCEPT !.tokAdmin[t] = admin, !.totalSupply[t] = 0], 0, 0)

\* mint that never asks for the admin's authorization.
mint_noauth(s, t, caller, to, amount) ==
    IF s.tokAdmin[t] = NoAddr THEN Panic(s, "not initialized")
    ELSE IF amount <= 0 THEN Panic(s, "amount must be positive")
    ELSE LET s1 == SetBalance(s, t, to, balance(s, t, to) + amount)
             s2 == [s1 EXCEPT !.totalSupply[t] = total_supply(s1, t) + amount]
         IN  Return(s2, 0, 0)

mint(s, t, caller, to, amount) ==
    IF s.tokAdmin[t] = NoAddr THEN Panic(s, "not initialized")
    ELSE IF caller # s.tokAdmin[t] THEN Panic(s, "unauthorized")
    ELSE IF amount <= 0 THEN Panic(s, "amount must be positive")
    ELSE LET s1 == SetBalance(s, t, to, balance(s, t, to) + amount)
             s2 == [s1 EXCEPT !.totalSupply[t] = total_supply(s1, t) + amount]
         IN  Return(s2, 0, 0)

burn(s, t, caller, from, amount) ==
    IF caller # from THEN Panic(s, "unauthorized")
    ELSE IF amount <= 0 THEN Panic(s, "amount must be positive")
    ELSE IF balance(s, t, from) < amount THEN Panic(s, "insufficient balance")
    ELSE LET s1 == SetBalance(s, t, from, balance(s, t, from) - amount)
             s2 == [s1 EXCEPT !.totalSupply[t] = total_supply(s1, t) - amount]
         IN  Return(s2, 0, 0)

burn_from(s, t, caller, spender, from, amount) ==
    IF caller # spender THEN Panic(s, "unauthorized")
    ELSE IF allowance(s, t, from, spender) < amount THEN Panic(s, "insufficient allowance")
    ELSE LET s1 == SetAllowance(s, t, from, spender, allowance(s, t, from, spender) - amount)
         IN  IF balance(s1, t, from) < amount THEN Panic(s1, "insufficient balance")
             ELSE LET s2 == SetBalance(s1, t, from, balance(s1, t, from) - amount)
                      s3 == [s2 EXCEPT !.totalSupply[t] = total_supply(s2, t) - amount]
                  IN  Return(s3, 0, 0)

\* transfer that accepts any amount.
transfer_anyamount(s, t, caller, from, to, amount) ==
    IF caller # from THEN Panic(s, "unauthorized")
    ELSE IF balance(s, t, from) < amount THEN Panic(s, "insufficient balance")
    ELSE LET s1 == SetBalance(s, t, from, balance(s, t, from) - amount)
             s2 == SetBalance(s1, t, to, balance(s1, t, to) + amount)
         IN  Return(s2, 0, 0)

transfer(s, t, caller, from, to, amount) ==
    IF caller # from THEN Panic(s, "unauthorized")
    ELSE IF amount <= 0 THEN Panic(s, "amount must be positive")
    ELSE IF balance(s, t, from) < amount THEN Panic(s, "insufficient balance")
    ELSE LET s1 == SetBalance(s, t, from, balance(s, t, from) - amount)
             s2 == SetBalance(s1, t, to, balance(s1, t, to) + amount)
         IN  Return(s2, 0, 0)

\* transfer_from that returns instead of panicking on an insufficient balance.
transfer_from_noabort(s, t, caller, spender, from, to, amount) ==
    IF caller # spender THEN Panic(s, "unauthorized")
    ELSE IF allowance(s, t, from, spender) < amount THEN Panic(s, "insufficient allowance")
    ELSE LET s1 == SetAllowance(s, t, from, spender, allowance(s, t, from, spender) - amount)
         IN  IF balance(s1, t, from) < amount THEN Return(s1, 0, 0)
             ELSE LET s2 == SetBalance(s1, t, from, balance(s1, t, from) - amount)
                      s3 == SetBalance(s2, t, to, balance(s2, t, to) + amount)
                  IN  Return(s3, 0, 0)

transfer_from(s, t, caller, spender, from, to, amount) ==
    IF caller # spender THEN Panic(s, "unauthorized")
    ELSE IF allowance(s, t, from, spender) < amount THEN Panic(s, "insufficient allowance")
    ELSE LET s1 == SetAllowance(s, t, from, spender, allowance(s, t, from, spender) - amount)
         IN  IF balance(s1, t, from) < amount THEN Panic(s1, "insufficient balance")
             ELSE LET s2 == SetBalance(s1, t, from, balance(s1, t, from) - amount)
                      s3 == SetBalance(s2, t, to, balance(s2, t, to) + amount)
                  IN  Return(s3, 0, 0)

\* expiration_ledger is a u32; set_ttl makes the entry live for
\* expiration_ledger - sequence more ledgers, that is until expiration_ledger.
approve(s, t, caller, from, spender, amount, expiration_ledger) ==
    IF caller # from THEN Panic(s, "unauthorized")
    ELSE IF expiration_ledger < s.seq THEN Panic(s, "expiration_ledger must be in the future")
    ELSE LET s1 == SetAllowance(s, t, from, spender, amount)
             s2 == [s1 EXCEPT !.allowances[t][<<from, spender>>].live =
                                  s1.seq + (expiration_ledger - s1.seq)]
         IN  Return(s2, 0, 0)

set_admin(s, t, caller, new_admin) ==
    IF s.tokAdmin[t] = NoAddr THEN Panic(s, "not initialized")
    ELSE IF caller # s.tokAdmin[t] THEN Panic(s, "unauthorized")
    ELSE Return([s EXCEPT !.tokAdmin[t] = new_admin], 0, 0)

\* ---------------------------------------------------------- liquidity pool
\* get_amount_out with the input amount left out of the denominator.
get_amount_out_nodilution(amount_in, reserve_in, reserve_out, fee_bps) ==
    LET fee_factor == 10000 - fee_bps
        amount_in_with_fee == amount_in * fee_factor
        numerator == amount_in_with_fee * reserve_out
        denominator == reserve_in * 10000
    IN  TruncDiv(numerator, denominator)

\* The divisor of get_amount_out (a zero divisor panics).
amount_out_denominator(amount_in, reserve_in, fee_bps) ==
    reserve_in * 10000 + amount_in * (10000 - fee_bps)

\* get_amount_out with the fee left out of the input.
get_amount_out_nofee(amount_in, reserve_in, reserve_out, fee_bps) ==
    LET amount_in_with_fee == amount_in * 10000
        denominator == reserve_in * 10000 + amount_in_with_fee
    IN  MulTruncDiv(amount_in_with_fee, reserve_out, denominator)

\* numerator / denominator, where numerator = amount_in_with_fee * reserve_out.
get_amount_out(amount_in, reserve_in, reserve_out, fee_bps) ==
    LET fee_factor == 10000 - fee_bps
        amount_in_with_fee == amount_in * fee_factor
        denominator == reserve_in * 10000 + amount_in_with_fee
    IN  MulTruncDiv(amount_in_with_fee, reserve_out, denominator)

\* The while loop of sqrt: x and z are its two locals.
RECURSIVE sqrt_loop(_, _, _)
sqrt_loop(y, x, z) == IF z < x THEN sqrt_loop(y, z, TruncDiv(TruncDiv(y, z) + z, 2)) ELSE x

\* sqrt of a non-negative y (a negative y panics in the caller's frame).
sqrt(y) == IF y = 0 THEN 0 ELSE sqrt_loop(y, y, TruncDiv(y + 1, 2))

\* The ends of the integer type and the value an overflowing result wraps to.
IntMax == 2 ^ (IntBits - 1) - 1
IntMin == -(2 ^ (IntBits - 1))
WrapInt(v) == ((v - IntMin) % (2 ^ IntBits)) + IntMin

\* sqrt on every y of the integer type.  y + 1 overflows for y = IntMax: the
\* build panics there when it checks overflow and wraps otherwise.
sqrt_call(s, y, overflow_checks) ==
    IF y < 0 THEN Panic(s, "negative sqrt")
    ELSE IF y = 0 THEN Return(s, 0, 0)
    ELSE IF y + 1 > IntMax
         THEN IF overflow_checks THEN Panic(s, "attempt to add with overflow")
              ELSE Return(s, sqrt_loop(y, y, TruncDiv(WrapInt(y + 1), 2)), 0)
    ELSE Return(s, sqrt(y), 0)

\* initialize without the already-initialized guard.
swap_initialize_again(s, admin, token_a, token_b, fee_bps) ==
    Return([s EXCEPT !.poolAdmin = admin, !.tokenA = token_a, !.tokenB = token_b,
                     !.reserveA = 0, !.reserveB = 0, !.totalShares = 0,
                     !.feeBps = fee_bps], 0, 0)

swap_initialize(s, admin, token_a, token_b, fee_bps) ==
    IF s.poolAdmin # NoAddr THEN Panic(s, "already initialized")
    ELSE Return([s EXCEPT !.poolAdmin = admin, !.tokenA = token_a, !.tokenB = token_b,
                          !.reserveA = 0, !.reserveB = 0, !.totalShares = 0,
                          !.feeBps = fee_bps], 0, 0)

\* add_liquidity that mints for the larger of the two proportions.
add_liquidity_max(s, caller, provider, amount_a, amount_b, min_shares) ==
    IF caller # provider THEN Panic(s, "unauthorized")
    ELSE IF amount_a <= 0 \/ amount_b <= 0 THEN Panic(s, "amounts must be positive")
    ELSE IF s.tokenA = NoAddr THEN Panic(s, "not initialized")
    ELSE IF s.totalShares # 0 /\ (s.reserveA = 0 \/ s.reserveB = 0)
         THEN Panic(s, "divide by zero")
    ELSE IF amount_a * amount_b < 0 THEN Panic(s, "negative sqrt")
    ELSE
    LET reserve_a == s.reserveA
        reserve_b == s.reserveB
        total_shares == s.totalShares
        shares == IF total_shares = 0 THEN sqrt(amount_a * amount_b)
                  ELSE Max(TruncDiv(amount_a * total_shares, reserve_a),
                           TruncDiv(amount_b * total_shares, reserve_b))
    IN  IF shares < min_shares THEN Panic(s, "insufficient shares minted")
        ELSE
        LET ta == transfer_from(s, s.tokenA, POOL, POOL, provider, POOL, amount_a)
        IN  IF ~ta.ok THEN Nested("token_a.transfer_from", ta)
            ELSE
            LET tb == transfer_from(ta.st, s.tokenB, POOL, POOL, provider, POOL, amount_b)
            IN  IF ~tb.ok THEN Nested("token_b.transfer_from", tb)
                ELSE
                LET s1 == [tb.st EXCEPT !.reserveA = reserve_a + amount_a,
                                        !.reserveB = reserve_b + amount_b,
                                        !.totalShares = total_shares + shares]
                    s2 == [s1 EXCEPT !.providerShares[provider] = @ + shares]
                IN  Return(s2, shares, 0)

\* add_liquidity that credits the provider but not the total.
add_liquidity_nototal(s, caller, provider, amount_a, amount_b, min_shares) ==
    IF caller # provider THEN Panic(s, "unauthorized")
    ELSE IF amount_a <= 0 \/ amount_b <= 0 THEN Panic(s, "amounts must be positive")
    ELSE IF s.tokenA = NoAddr THEN Panic(s, "not initialized")
    ELSE IF s.totalShares # 0 /\ (s.reserveA = 0 \/ s.reserveB = 0)
         THEN Panic(s, "divide by zero")
    ELSE IF amount_a * amount_b < 0 THEN Panic(s, "negative sqrt")
    ELSE
    LET reserve_a == s.reserveA
        reserve_b == s.reserveB
        total_shares == s.totalShares
        shares == IF total_shares = 0 THEN sqrt(amount_a * amount_b)
                  ELSE Min(TruncDiv(amount_a * total_shares, reserve_a),
                           TruncDiv(amount_b * total_shares, reserve_b))
    IN  IF shares < min_shares THEN Panic(s, "insufficient shares minted")
        ELSE
        LET ta == transfer_from(s, s.tokenA, POOL, POOL, provider, POOL, amount_a)
        IN  IF ~ta.ok THEN Nested("token_a.transfer_from", ta)
            ELSE
            LET tb == transfer_from(ta.st, s.tokenB, POOL, POOL, provider, POOL, amount_b)
            IN  IF ~tb.ok THEN Nested("token_b.transfer_from", tb)
                ELSE
                LET s1 == [tb.st EXCEPT !.reserveA = reserve_a + amount_a,
                                        !.reserveB = reserve_b + amount_b]
                    s2 == [s1 EXCEPT !.providerShares[provider] = @ + shares]
                IN  Return(s2, shares, 0)

add_liquidity(s, caller, provider, amount_a, amount_b, min_shares) ==
    IF caller # provider THEN Panic(s, "unauthorized")
    ELSE IF amount_a <= 0 \/ amount_b <= 0 THEN Panic(s, "amounts must be positive")
    ELSE IF s.tokenA = NoAddr THEN Panic(s, "not initialized")
    ELSE IF s.totalShares # 0 /\ (s.reserveA = 0 \/ s.reserveB = 0)
         THEN Panic(s, "divide by zero")
    ELSE IF amount_a * amount_b < 0 THEN Panic(s, "negative sqrt")
    ELSE
    LET reserve_a == s.reserveA
        reserve_b == s.reserveB
        total_shares == s.totalShares
        shares == IF total_shares = 0 THEN sqrt(amount_a * amount_b)
                  ELSE Min(TruncDiv(amount_a * total_shares, reserve_a),
                           TruncDiv(amount_b * total_shares, reserve_b))
    IN  IF shares < min_shares THEN Panic(s, "insufficient shares minted")
        ELSE
        LET ta == transfer_from(s, s.tokenA, POOL, POOL, provider, POOL, amount_a)
        IN  IF ~ta.ok THEN Nested("token_a.transfer_from", ta)
            ELSE
            LET tb == transfer_from(ta.st, s.tokenB, POOL, POOL, provider, POOL, amount_b)
            IN  IF ~tb.ok THEN Nested("token_b.transfer_from", tb)
                ELSE
                LET s1 == [tb.st EXCEPT !.reserveA = reserve_a + amount_a,
                                        !.reserveB = reserve_b + amount_b,
                                        !.totalShares = total_shares + shares]
                    s2 == [s1 EXCEPT !.providerShares[provider] = @ + shares]
                IN  Return(s2, shares, 0)

\* remove_liquidity that rounds the amounts paid out up.
remove_liquidity_roundup(s, caller, provider, shares, min_amount_a, min_amount_b) ==
    IF caller # provider THEN Panic(s, "unauthorized")
    ELSE IF shares <= 0 THEN Panic(s, "shares must be positive")
    ELSE IF s.providerShares[provider] < shares THEN Panic(s, "insufficient shares")
    ELSE IF s.tokenA = NoAddr THEN Panic(s, "not initialized")
    ELSE IF s.totalShares = 0 THEN Panic(s, "divide by zero")
    ELSE
    LET provider_shares == s.providerShares[provider]
        reserve_a == s.reserveA
        reserve_b == s.reserveB
        total_shares == s.totalShares
        amount_a == TruncDiv(shares * reserve_a + total_shares - 1, total_shares)
        amount_b == TruncDiv(shares * reserve_b + total_shares - 1, total_shares)
    IN  IF amount_a < min_amount_a \/ amount_b < min_amount_b
        THEN Panic(s, "slippage exceeded")
        ELSE
        LET s1 == [s EXCEPT !.reserveA = reserve_a - amount_a,
                            !.reserveB = reserve_b - amount_b,
                            !.totalShares = total_shares - shares,
                            !.providerShares[provider] = provider_shares - shares]
            ta == transfer(s1, s.tokenA, POOL, POOL, provider, amount_a)
        IN  IF ~ta.ok THEN Nested("token_a.transfer", ta)
            ELSE
            LET tb == transfer(ta.st, s.tokenB, POOL, POOL, provider, amount_b)
            IN  IF ~tb.ok THEN Nested("token_b.transfer", tb)
                ELSE Return(tb.st, amount_a, amount_b)

remove_liquidity(s, caller, provider, shares, min_amount_a, min_amount_b) ==
    IF caller # provider THEN Panic(s, "unauthorized")
    ELSE IF shares <= 0 THEN Panic(s, "shares must be positive")
    ELSE IF s.providerShares[provider] < shares THEN Panic(s, "insufficient shares")
    ELSE IF s.tokenA = NoAddr THEN Panic(s, "not initialized")
    ELSE IF s.totalShares = 0 THEN Panic(s, "divide by zero")
    ELSE
    LET provider_shares == s.providerShares[provider]
        reserve_a == s.reserveA
        reserve_b == s.reserveB
        total_shares == s.totalShares
        amount_a == TruncDiv(shares * reserve_a, total_shares)
        amount_b == TruncDiv(shares * reserve_b, total_shares)
    IN  IF amount_a < min_amount_a \/ amount_b < min_amount_b
        THEN Panic(s, "slippage exceeded")
        ELSE
        LET s1 == [s EXCEPT !.reserveA = reserve_a - amount_a,
                            !.reserveB = reserve_b - amount_b,
                            !.totalShares = total_shares - shares,
                            !.providerShares[provider] = provider_shares - shares]
            ta == transfer(s1, s.tokenA, POOL, POOL, provider, amount_a)
        IN  IF ~ta.ok THEN Nested("token_a.transfer", ta)
            ELSE
            LET tb == transfer(ta.st, s.tokenB, POOL, POOL, provider, amount_b)
            IN  IF ~tb.ok THEN Nested("token_b.transfer", tb)
                ELSE Return(tb.st, amount_a, amount_b)

\* swap_a_for_b that forgets the input when it updates the reserves.
swap_a_for_b_noinput(s, caller, user, amount_in, min_amount_out) ==
    IF caller # user THEN Panic(s, "unauthorized")
    ELSE IF amount_in <= 0 THEN Panic(s, "amount must be positive")
    ELSE IF s.tokenA = NoAddr THEN Panic(s, "not initialized")
    ELSE IF s.reserveA = 0 \/ s.reserveB = 0 THEN Panic(s, "pool has no liquidity")
    ELSE IF amount_out_denominator(amount_in, s.reserveA, s.feeBps) = 0
         THEN Panic(s, "divide by zero")
    ELSE
    LET reserve_a == s.reserveA
        reserve_b == s.reserveB
        amount_out == get_amount_out(amount_in, reserve_a, reserve_b, s.feeBps)
    IN  IF amount_out < min_amount_out THEN Panic(s, "slippage exceeded")
        ELSE
        LET ta == transfer_from(s, s.tokenA, POOL, POOL, user, POOL, amount_in)
        IN  IF ~ta.ok THEN Nested("token_a.transfer_from", ta)
            ELSE
            LET s1 == [ta.st EXCEPT !.reserveB = reserve_b - amount_out]
                tb == transfer(s1, s.tokenB, POOL, POOL, user, amount_out)
            IN  IF ~tb.ok THEN Nested("token_b.transfer", tb)
                ELSE Return(tb.st, amount_out, 0)

\* swap_a_for_b without the check for an empty pool.
swap_a_for_b_unguarded(s, caller, user, amount_in, min_amount_out) ==
    IF caller # user THEN Panic(s, "unauthorized")
    ELSE IF amount_in <= 0 THEN Panic(s, "amount must be positive")
    ELSE IF s.tokenA = NoAddr THEN Panic(s, "not initialized")
    ELSE IF amount_out_denominator(amount_in, s.reserveA, s.feeBps) = 0
         THEN Panic(s, "divide by zero")
    ELSE
    LET reserve_a == s.reserveA
        reserve_b == s.reserveB
        amount_out == get_amount_out(amount_in, reserve_a, reserve_b, s.feeBps)
    IN  IF amount_out < min_amount_out THEN Panic(s, "slippage exceeded")
        ELSE
        LET ta == transfer_from(s, s.tokenA, POOL, POOL, user, POOL, amount_in)
        IN  IF ~ta.ok THEN Nested("token_a.transfer_from", ta)
            ELSE
            LET s1 == [ta.st EXCEPT !.reserveA = reserve_a + amount_in,
                                    !.reserveB = reserve_b - amount_out]
                tb == transfer(s1, s.tokenB, POOL, POOL, user, amount_out)
            IN  IF ~tb.ok THEN Nested("token_b.transfer", tb)
                ELSE Return(tb.st, amount_out, 0)

\* swap_a_for_b that pays the user before it stores the new reserves.
swap_a_for_b_payfirst(s, caller, user, amount_in, min_amount_out) ==
    IF caller # user THEN Panic(s, "unauthorized")
    ELSE IF amount_in <= 0 THEN Panic(s, "amount must be positive")
    ELSE IF s.tokenA = NoAddr THEN Panic(s, "not initialized")
    ELSE IF s.reserveA = 0 \/ s.reserveB = 0 THEN Panic(s, "pool has no liquidity")
    ELSE IF amount_out_denominator(amount_in, s.reserveA, s.feeBps) = 0
         THEN Panic(s, "divide by zero")
    ELSE
    LET reserve_a == s.reserveA
        reserve_b == s.reserveB
        amount_out == get_amount_out(amount_in, reserve_a, reserve_b, s.feeBps)
    IN  IF amount_out < min_amount_out THEN Panic(s, "slippage exceeded")
        ELSE
        LET ta == transfer_from(s, s.tokenA, POOL, POOL, user, POOL, amount_in)
        IN  IF ~ta.ok THEN Nested("token_a.transfer_from", ta)
            ELSE
            LET tb == transfer(ta.st, s.tokenB, POOL, POOL, user, amount_out)
            IN  IF ~tb.ok THEN Nested("token_b.transfer", tb)
                ELSE Return([tb.st EXCEPT !.reserveA = reserve_a + amount_in,
                                          !.reserveB = reserve_b - amount_out],
                            amount_out, 0)

swap_a_for_b(s, caller, user, amount_in, min_amount_out) ==
    IF caller # user THEN Panic(s, "unauthorized")
    ELSE IF amount_in <= 0 THEN Panic(s, "amount must be positive")
    ELSE IF s.tokenA = NoAddr THEN Panic(s, "not initialized")
    ELSE IF s.reserveA = 0 \/ s.reserveB = 0 THEN Panic(s, "pool has no liquidity")
    ELSE IF amount_out_denominator(amount_in, s.reserveA, s.feeBps) = 0
         THEN Panic(s, "divide by zero")
    ELSE
    LET reserve_a == s.reserveA
        reserve_b == s.reserveB
        amount_out == get_amount_out(amount_in, reserve_a, reserve_b, s.feeBps)
    IN  IF amount_out < min_amount_out THEN Panic(s, "slippage exceeded")
        ELSE
        LET ta == transfer_from(s, s.tokenA, POOL, POOL, user, POOL, amount_in)
        IN  IF ~ta.ok THEN Nested("token_a.transfer_from", ta)
            ELSE
            LET s1 == [ta.st EXCEPT !.reserveA = reserve_a + amount_in,
                                    !.reserveB = reserve_b - amount_out]
                tb == transfer(s1, s.tokenB, POOL, POOL, user, amount_out)
            IN  IF ~tb.ok THEN Nested("token_b.transfer", tb)
                ELSE Return(tb.st, amount_out, 0)

swap_b_for_a(s, caller, user, amount_in, min_amount_out) ==
    IF caller # user THEN Panic(s, "unauthorized")
    ELSE IF amount_in <= 0 THEN Panic(s, "amount must be positive")
    ELSE IF s.tokenA = NoAddr THEN Panic(s, "not initialized")
    ELSE IF s.reserveA = 0 \/ s.reserveB = 0 THEN Panic(s, "pool has no liquidity")
    ELSE IF amount_out_denominator(amount_in, s.reserveB, s.feeBps) = 0
         THEN Panic(s, "divide by zero")
    ELSE
    LET reserve_a == s.reserveA
        reserve_b == s.reserveB
        amount_out == get_amount_out(amount_in, reserve_b, reserve_a, s.feeBps)
    IN  IF amount_out < min_amount_out THEN Panic(s, "slippage exceeded")
        ELSE
        LET tb == transfer_from(s, s.tokenB, POOL, POOL, user, POOL, amount_in)
        IN  IF ~tb.ok THEN Nested("token_b.transfer_from", tb)
            ELSE
            LET s1 == [tb.st EXCEPT !.reserveB = reserve_b + amount_in,
                                    !.reserveA = reserve_a - amount_out]
                ta == transfer(s1, s.tokenA, POOL, POOL, user, amount_out)
            IN  IF ~ta.ok THEN Nested("token_a.transfer", ta)
                ELSE Return(ta.st, amount_out, 0)

get_price_a_to_b(s, amount_in) ==
    IF s.reserveA = 0 \/ s.reserveB = 0 THEN Return(s, 0, 0)
    ELSE IF amount_out_denominator(amount_in, s.reserveA, s.feeBps) = 0
         THEN Panic(s, "divide by zero")
    ELSE Return(s, get_amount_out(amount_in, s.reserveA, s.reserveB, s.feeBps), 0)

get_price_b_to_a(s, amount_in) ==
    IF s.reserveA = 0 \/ s.reserveB = 0 THEN Return(s, 0, 0)
    ELSE IF amount_out_denominator(amount_in, s.reserveB, s.feeBps) = 0
         THEN Panic(s, "divide by zero")
    ELSE Return(s, get_amount_out(amount_in, s.reserveB, s.reserveA, s.feeBps), 0)

\* ------------------------------------------------------------- invocations
\* The host applies an invocation's writes when it returns and drops all of
\* them, in both contracts, when it panics.
Commit(pre, res) == IF res.ok THEN res.st ELSE pre

Stored(s) ==
    {s.totalSupply[t] : t \in Tok}
        \cup {s.balances[t][a] : t \in Tok, a \in Addr}
        \cup UNION {{s.allowances[t][p].amount : p \in DOMAIN s.allowances[t]} : t \in Tok}

\* The explored window: stored ledger values of magnitude at most w.
InWindow(s, w) == \A v \in Stored(s) : -w <= v /\ v <= w

Req(op, tok, caller, from, to, spender, amount, amount2, min) ==
    [op |-> op, tok |-> tok, caller |-> caller, from |-> from, to |-> to,
     spender |-> spender, amount |-> amount, amount2 |-> amount2, min |-> min,
     ok |-> TRUE, err |-> "", at |-> "", r1 |-> 0, r2 |-> 0]

NoCall == Req("none", "-", NoAddr, NoAddr, NoAddr, NoAddr, 0, 0, 0)

\* What is kept of an invocation: a returned call with its arguments and
\* results; a panicked call with its entry point, ledger, message and the
\* nested call that panicked.
Logged(req, res) ==
    IF res.ok THEN [req EXCEPT !.r1 = res.r1, !.r2 = res.r2]
    ELSE [Req(req.op, req.tok, NoAddr, NoAddr, NoAddr, NoAddr, 0, 0, 0)
             EXCEPT !.ok = FALSE, !.err = res.err, !.at = res.at]

\* One invocation: the entry point's result res is committed or rolled back.
Invoke(w, req, result) ==
    \E res \in {result} : \E post \in {Commit(Cur, res)} :
        /\ InWindow(post, w)
        /\ tokAdmin' = post.tokAdmin
        /\ totalSupply' = post.totalSupply
        /\ balances' = post.balances
        /\ allowances' = post.allowances
        /\ poolAdmin' = post.poolAdmin
        /\ tokenA' = post.tokenA
        /\ tokenB' = post.tokenB
        /\ reserveA' = post.reserveA
        /\ reserveB' = post.reserveB
        /\ totalShares' = post.totalShares
        /\ providerShares' = post.providerShares
        /\ feeBps' = post.feeBps
        /\ seq' = seq
        /\ last' = Logged(req, res)

TokenInitialize(w, t, admin) ==
    Invoke(w, Req("token_initialize", t, admin, NoAddr, NoAddr, NoAddr, 0, 0, 0),
           token_initialize(Cur, t, admin))

Mint(w, t, caller, to, amount) ==
    Invoke(w, Req("mint", t, caller, NoAddr, to, NoAddr, amount, 0, 0),
           mint(Cur, t, caller, to, amount))

Burn(w, t, caller, from, amount) ==
    Invoke(w, Req("burn", t, caller, from, NoAddr, NoAddr, amount, 0, 0),
           burn(Cur, t, caller, from, amount))

BurnFrom(w, t, caller, spender, from, amount) ==
    Invoke(w, Req("burn_from", t, caller, from, NoAddr, spender, amount, 0, 0),
           burn_from(Cur, t, caller, spender, from, amount))

Transfer(w, t, caller, from, to, amount) ==
    Invoke(w, Req("transfer", t, caller, from, to, NoAddr, amount, 0, 0),
           transfer(Cur, t, caller, from, to, amount))

TransferFrom(w, t, caller, spender, from, to, amount) ==
    Invoke(w, Req("transfer_from", t, caller, from, to, spender, amount, 0, 0),
           transfer_from(Cur, t, caller, spender, from, to, amount))

Approve(w, t, caller, from, spender, amount, expiration_ledger) ==
    Invoke(w, Req("approve", t, caller, from, NoAddr, spender, amount, expiration_ledger, 0),
           approve(Cur, t, caller, from, spender, amount, expiration_ledger))

SetAdmin(w, t, caller, new_admin) ==
    Invoke(w, Req("set_admin", t, caller, NoAddr, new_admin, NoAddr, 0, 0, 0),
           set_admin(Cur, t, caller, new_admin))

SwapInitialize(w, admin, fee_bps) ==
    Invoke(w, Req("swap_initialize", "-", admin, NoAddr, NoAddr, NoAddr, fee_bps, 0, 0),
           swap_initialize(Cur, admin, "A", "B", fee_bps))

AddLiquidity(w, caller, provider, amount_a, amount_b, min_shares) ==
    Invoke(w, Req("add_liquidity", "-", caller, provider, NoAddr, NoAddr,
                  amount_a, amount_b, min_shares),
           add_liquidity(Cur, caller, provider, amount_a, amount_b, min_shares))

\* min_amount_a and min_amount_b are both given as min.
RemoveLiquidity(w, caller, provider, shares, min) ==
    Invoke(w, Req("remove_liquidity", "-", caller, provider, NoAddr, NoAddr,
                  shares, min, min),
           remove_liquidity(Cur, caller, provider, shares, min, min))

SwapAForB(w, caller, user, amount_in, min_amount_out) ==
    Invoke(w, Req("swap_a_for_b", "-", caller, user, NoAddr, NoAddr,
                  amount_in, 0, min_amount_out),
           swap_a_for_b(Cur, caller, user, amount_in, min_amount_out))

SwapBForA(w, caller, user, amount_in, min_amount_out) ==
    Invoke(w, Req("swap_b_for_a", "-", caller, user, NoAddr, NoAddr,
                  amount_in, 0, min_amount_out),
           swap_b_for_a(Cur, caller, user, amount_in, min_amount_out))

GetPriceAToB(w, amount_in) ==
    Invoke(w, Req("get_price_a_to_b", "-", NoAddr, NoAddr, NoAddr, NoAddr, amount_in, 0, 0),
           get_price_a_to_b(Cur, amount_in))

GetPriceBToA(w, amount_in) ==
    Invoke(w, Req("get_price_b_to_a", "-", NoAddr, NoAddr, NoAddr, NoAddr, amount_in, 0, 0),
           get_price_b_to_a(Cur, amount_in))

\* get_amount_out applied to its arguments and the stored fee.
GetAmountOut(w, amount_in, reserve_in, reserve_out) ==
    Invoke(w, Req("get_amount_out", "-", NoAddr, NoAddr, NoAddr, NoAddr,
                  amount_in, reserve_in, reserve_out),
           Return(Cur, get_amount_out(amount_in, reserve_in, reserve_out, feeBps), 0))

\* sqrt applied to y; the argument is kept also when it panics.
Sqrt(y, overflow_checks) ==
    \E res \in {sqrt_call(Cur, y, overflow_checks)} :
        /\ last' = [Req("sqrt", "-", NoAddr, NoAddr, NoAddr, NoAddr, y, 0, 0)
                        EXCEPT !.ok = res.ok, !.err = res.err, !.r1 = res.r1]
        /\ UNCHANGED <<seq, tokAdmin, totalSupply, balances, allowances, poolAdmin,
                       tokenA, tokenB, reserveA, reserveB, totalShares,
                       providerShares, feeBps>>

\* The network closes a ledger: the sequence number grows by one.
AdvanceLedger ==
    /\ seq < MaxSeq
    /\ seq' = seq + 1
    /\ last' = Req("advance_ledger", "-", NoAddr, NoAddr, NoAddr, NoAddr, 0, 0, 0)
    /\ UNCHANGED <<tokAdmin, totalSupply, balances, allowances, poolAdmin,
                   tokenA, tokenB, reserveA, reserveB, totalShares, providerShares, feeBps>>

\* The storage drops an allowance entry whose live-until ledger has passed; when
\* it does so is the host's choice.
Purge(t, from, spender) ==
    /\ <<from, spender>> \in DOMAIN allowances[t]
    /\ allowances[t][<<from, spender>>].live < seq
    /\ allowances' = [allowances EXCEPT ![t] =
           [k \in DOMAIN allowances[t] \ {<<from, spender>>} |-> allowances[t][k]]]
    /\ last' = Req("purge", t, NoAddr, from, NoAddr, spender, 0, 0, 0)
    /\ UNCHANGED <<seq, tokAdmin, totalSupply, balances, poolAdmin,
                   tokenA, tokenB, reserveA, reserveB, totalShares, providerShares, feeBps>>

RECURSIVE SumOver(_, _)
SumOver(f, S) == IF S = {} THEN 0
                 ELSE LET a == CHOOSE x \in S : TRUE IN f[a] + SumOver(f, S \ {a})

\* ------------------------------------------------------------ specifications
Amounts == -MaxAmt .. MaxAmt
Expirations == {e \in (seq - 1) .. (seq + 1) : e >= 0}
PoolAmounts == 0 .. MaxPoolAmt
MinChoices == {0, 2}

\* Nothing deployed yet: both ledgers and the pool are uninitialized.
Init ==
    /\ seq = 1
    /\ tokAdmin = [t \in Tok |-> NoAddr]
    /\ totalSupply = [t \in Tok |-> 0]
    /\ balances = [t \in Tok |-> [a \in Addr |-> 0]]
    /\ allowances = [t \in Tok |-> [p \in {} |-> 0]]
    /\ poolAdmin = NoAddr
    /\ tokenA = NoAddr
    /\ tokenB = NoAddr
    /\ reserveA = 0
    /\ reserveB = 0
    /\ totalShares = 0
    /\ providerShares = [a \in Addr |-> 0]
    /\ feeBps = 0
    /\ last = NoCall

\* One ledger on its own: every entry point, called by a user with an amount
\* of Amts and an expiration of Exps.  Allowances are those the owner u1 grants
\* the spender u2.
LedgerNext(Amts, Exps) ==
    \/ \E a \in Users : TokenInitialize(MaxVal, "A", a)
    \/ \E c \in Users, to \in Users, x \in Amts : Mint(MaxVal, "A", c, to, x)
    \/ \E c \in Users, x \in Amts : Burn(MaxVal, "A", c, "u1", x)
    \/ \E c \in Users, x \in Amts : BurnFrom(MaxVal, "A", c, "u2", "u1", x)
    \/ \E f \in Users, to \in Users, x \in Amts : Transfer(MaxVal, "A", f, f, to, x)
    \/ \E to \in Users, x \in Amts : TransferFrom(MaxVal, "A", "u2", "u2", "u1", to, x)
    \/ \E x \in Amts, e \in Exps : Approve(MaxVal, "A", "u1", "u1", "u2", x, e)
    \/ \E c \in Users, a \in Users : SetAdmin(MaxVal, "A", c, a)

\* Callers pass any integer amount and any expiration, within one ledger
\* sequence number.
NextLedger == LedgerNext(Amounts, Expirations)

SpecLedger == Init /\ [][NextLedger]_vars

\* Callers keep to the documented inputs (no negative amount, an expiration
\* in the past or strictly in the future) while the ledger sequence advances
\* and the storage purges what has expired.
NextLedgerTime ==
    \/ LedgerNext(0 .. MaxAmt + 1, Expirations \ {seq})
    \/ AdvanceLedger
    \/ Purge("A", "u1", "u2")

SpecLedgerTime == Init /\ [][NextLedgerTime]_vars

\* Deployment: starting with nothing initialized, either user initializes
\* the ledgers and the pool (again and again), the ledger admins mint and
\* change, the users approve the pool and use it.
DeployFees == {0, 30}
NextDeploy ==
    \/ \E t \in Tok, a \in Users : TokenInitialize(MaxVal, t, a)
    \/ \E a \in Users, f \in DeployFees : SwapInitialize(MaxVal, a, f)
    \/ \E t \in Tok, c \in Users : Mint(MaxVal, t, c, "u1", MaxVal)
    \/ \E t \in Tok : Approve(MaxVal, t, "u1", "u1", POOL, MaxVal, MaxSeq + 1)
    \/ \E t \in Tok, c \in Users, a \in Users : SetAdmin(MaxVal, t, c, a)
    \/ \E x \in 1 .. MaxPoolAmt, y \in 1 .. MaxPoolAmt :
           AddLiquidity(MaxVal, "u1", "u1", x, y, 0)
    \/ \E x \in 1 .. MaxPoolAmt : RemoveLiquidity(MaxVal, "u1", "u1", x, 0)
    \/ SwapAForB(MaxVal, "u1", "u1", 1, 0)
    \/ SwapBForA(MaxVal, "u1", "u1", 1, 0)

SpecDeploy == Init /\ [][NextDeploy]_vars

\* Both ledgers and the pool are initialized (u1 is the admin of each), the
\* users have been minted tokens and have approved the pool until after the
\* last ledger sequence number: u1 holds and has approved Fund of each token;
\* u2 holds Fund - 1 of token A and a single token B, and has approved
\* Fund - 1 of each (more token B than it holds).
InitFunded ==
    /\ seq = 1
    /\ tokAdmin = [t \in Tok |-> "u1"]
    /\ balances = [t \in Tok |-> [a \in Addr |->
                      IF a = POOL THEN 0
                      ELSE IF a = "u1" THEN Fund
                      ELSE IF t = "A" THEN Fund - 1 ELSE 1]]
    /\ totalSupply = [t \in Tok |-> SumOver(balances[t], Addr)]
    /\ allowances = [t \in Tok |-> [p \in Users \X {POOL} |->
                        [amount |-> IF p[1] = "u1" THEN Fund ELSE Fund - 1,
                         live |-> MaxSeq + 1]]]
    /\ poolAdmin = "u1"
    /\ tokenA = "A"
    /\ tokenB = "B"
    /\ reserveA = 0
    /\ reserveB = 0
    /\ totalShares = 0
    /\ providerShares = [a \in Addr |-> 0]
    /\ feeBps \in FeeChoices
    /\ last = NoCall

\* The pool's liquidity and swap entry points, called by the users.
NextPool ==
    \/ \E p \in Users, x \in PoolAmounts, y \in PoolAmounts, m \in MinChoices :
           AddLiquidity(4 * Fund, p, p, x, y, m)
    \/ \E p \in Users, x \in PoolAmounts, m \in MinChoices :
           RemoveLiquidity(4 * Fund, p, p, x, m)
    \/ \E u \in Users, x \in PoolAmounts, m \in MinChoices : SwapAForB(4 * Fund, u, u, x, m)
    \/ \E u \in Users, x \in PoolAmounts, m \in MinChoices : SwapBForA(4 * Fund, u, u, x, m)

SpecPool == InitFunded /\ [][NextPool]_vars

\* Quotes on a pool the users deposit into and trade with; a quote is asked
\* for any integer amount.
QuoteAmounts == -MaxPoolAmt .. MaxPoolAmt
NextQuote ==
    \/ \E x \in QuoteAmounts : GetPriceAToB(4 * Fund, x)
    \/ \E x \in QuoteAmounts : GetPriceBToA(4 * Fund, x)
    \/ \E x \in 1 .. MaxPoolAmt, y \in 1 .. MaxPoolAmt :
           AddLiquidity(4 * Fund, "u1", "u1", x, y, 0)
    \/ \E x \in 1 .. MaxPoolAmt : SwapAForB(4 * Fund, "u2", "u2", x, 0)
    \/ \E x \in 1 .. MaxPoolAmt : SwapBForA(4 * Fund, "u2", "u2", x, 0)

SpecQuote == InitFunded /\ [][NextQuote]_vars

\* The pool's entry points, called by the provider u1 and the trader u2,
\* interleaved with direct calls of the token A ledger's entry points by u2
\* (and mint by either user), with any integer amount.  u1 holds MaxAmt of
\* each token, u2 holds nothing, and both have approved the pool for MaxAmt.
InitOpen ==
    /\ seq = 1
    /\ tokAdmin = [t \in Tok |-> "u1"]
    /\ balances = [t \in Tok |-> [a \in Addr |-> IF a = "u1" THEN MaxAmt ELSE 0]]
    /\ totalSupply = [t \in Tok |-> SumOver(balances[t], Addr)]
    /\ allowances = [t \in Tok |-> [p \in Users \X {POOL} |->
                        [amount |-> MaxAmt, live |-> MaxSeq + 1]]]
    /\ poolAdmin = "u1"
    /\ tokenA = "A"
    /\ tokenB = "B"
    /\ reserveA = 0
    /\ reserveB = 0
    /\ totalShares = 0
    /\ providerShares = [a \in Addr |-> 0]
    /\ feeBps = 30
    /\ last = NoCall

NextOpen ==
    \/ AddLiquidity(MaxAmt, "u1", "u1", MaxAmt, MaxAmt, 0)
    \/ RemoveLiquidity(MaxAmt, "u1", "u1", MaxAmt, 0)
    \/ SwapAForB(MaxAmt, "u2", "u2", MaxAmt, 0)
    \/ SwapBForA(MaxAmt, "u2", "u2", MaxAmt, 0)
    \/ \E c \in Users, x \in Amounts : Mint(MaxAmt, "A", c, c, x)
    \/ \E x \in Amounts : Burn(MaxAmt, "A", "u2", "u2", x)
    \/ \E x \in Amounts : BurnFrom(MaxAmt, "A", "u2", "u2", "u1", x)
    \/ \E to \in Addr, x \in Amounts : Transfer(MaxAmt, "A", "u2", "u2", to, x)
    \/ \E to \in Addr, x \in Amounts : TransferFrom(MaxAmt, "A", "u2", "u2", "u1", to, x)
    \/ \E x \in Amounts : Approve(MaxAmt, "A", "u2", "u2", POOL, x, MaxSeq + 1)

SpecOpen == InitOpen /\ [][NextOpen]_vars



\* Both ledgers and the pool are initialized and the pool is empty.  The
\* provider u1 holds BigFund of each token and the trader u2 SwapFund; each has
\* approved to the pool what it holds.
InitDeposit ==
    /\ seq = 1
    /\ tokAdmin = [t \in Tok |-> "u1"]
    /\ balances = [t \in Tok |-> [a \in Addr |->
                      IF a = POOL THEN 0 ELSE IF a = "u1" THEN BigFund ELSE SwapFund]]
    /\ totalSupply = [t \in Tok |-> SumOver(balances[t], Addr)]
    /\ allowances = [t \in Tok |-> [p \in Users \X {POOL} |->
                        [amount |-> balances[t][p[1]], live |-> MaxSeq + 1]]]
    /\ poolAdmin = "u1"
    /\ tokenA = "A"
    /\ tokenB = "B"
    /\ reserveA = 0
    /\ reserveB = 0
    /\ totalShares = 0
    /\ providerShares = [a \in Addr |-> 0]
    /\ feeBps = 30
    /\ last = NoCall

DepositAmounts == {0, 100, 400}
DepositMins == {0, 200, 201}
RedeemShares == {200}

\* Deposits of the size of the first deposit and redemptions by u1, swaps by u2.
NextDeposit ==
    \/ \E x \in DepositAmounts, y \in DepositAmounts, m \in DepositMins :
           AddLiquidity(4 * BigFund, "u1", "u1", x, y, m)
    \/ \E x \in RedeemShares : RemoveLiquidity(4 * BigFund, "u1", "u1", x, 0)
    \/ SwapAForB(4 * BigFund, "u2", "u2", SwapFund, 0)
    \/ SwapBForA(4 * BigFund, "u2", "u2", SwapFund, 0)

SpecDeposit == InitDeposit /\ [][NextDeposit]_vars

\* The arguments of a direct application of get_amount_out: small ones, and
\* the documented example.
CalcInputs ==
    ((1 .. MaxCalcIn) \X (1 .. MaxCalcIn) \X (1 .. MaxCalcIn)) \cup {<<1000, 10000, 10000>>}

\* The pricing arithmetic: get_amount_out applied to its arguments, and swaps
\* by u2 against a deposit by u1.
NextMath ==
    \/ \E i \in CalcInputs : GetAmountOut(4 * Fund, i[1], i[2], i[3])
    \/ \E x \in 1 .. MaxPoolAmt, y \in 1 .. MaxPoolAmt :
           AddLiquidity(4 * Fund, "u1", "u1", x, y, 0)
    \/ \E x \in 1 .. MaxPoolAmt : SwapAForB(4 * Fund, "u2", "u2", x, 0)
    \/ \E x \in 1 .. MaxPoolAmt : SwapBForA(4 * Fund, "u2", "u2", x, 0)

SpecMath == InitFunded /\ [][NextMath]_vars

\* sqrt applied to every value of the integer type, by a build that checks
\* overflow and by one that does not.
NextSqrt == \E y \in (IntMin .. IntMax), c \in BOOLEAN : Sqrt(y, c)

SpecSqrt == InitFunded /\ [][NextSqrt]_vars

\* ------------------------------------------------------------------ claims
\* The allowance (from, spender) as the ledger reports it.
AllowanceOf(t, p) == allowance(Cur, t, p[1], p[2])

\* The entry exists and the ledger sequence has passed its expiration.
Expired(t, p) == p \in DOMAIN allowances[t] /\ allowances[t][p].live < seq

\* C1: in every reachable state every balance of every address is >= 0.
C1_BalancesNonNegative == \A t \in Tok, a \in Addr : balances[t][a] >= 0

\* C2: in every reachable state totalSupply equals the sum of all balances,
\* also after a transfer whose from and to are the same address.
C2_SupplyIsSumOfBalances == \A t \in Tok : totalSupply[t] = SumOver(balances[t], Addr)

\* C7: no ledger operation other than approve increases an allowance:
\* transfer_from and burn_from fail or leave it less than or equal to its
\* previous value, and every other operation leaves it unchanged.
C7_OnlyApproveRaisesAllowance ==
    [][/\ last'.op \in {"transfer_from", "burn_from"}
          => \A t \in Tok, p \in Pairs : AllowanceOf(t, p)' <= AllowanceOf(t, p)
       /\ last'.op \in {"token_initialize", "mint", "burn", "transfer", "set_admin"}
          => \A t \in Tok, p \in Pairs : AllowanceOf(t, p)' = AllowanceOf(t, p)]_vars

\* C8: approve fails whenever expirationSequence is not strictly greater than
\* the current ledger sequence (equal included), and a failed approve leaves
\* the prior allowance unchanged.
C8_ApproveNeedsFutureExpiration ==
    [][last'.op = "approve"
          => /\ last'.ok => last'.amount2 > seq
             /\ ~last'.ok =>
                    \A t \in Tok, p \in Pairs : AllowanceOf(t, p)' = AllowanceOf(t, p)]_vars

\* C9: once the ledger sequence has passed the expirationSequence given to
\* approve, allowance(owner, spender) counts as 0 and transfer_from / burn_from
\* by that spender for a positive amount fail, purged or not.
C9_ExpiredAllowanceIsVoid ==
    [][/\ \A t \in Tok, p \in Pairs : Expired(t, p)' => AllowanceOf(t, p)' = 0
       /\ (last'.op \in {"transfer_from", "burn_from"} /\ last'.ok /\ last'.amount > 0)
              => ~Expired(last'.tok, <<last'.from, last'.spender>>)]_vars

\* C3: in every state reachable by pool operations totalShares equals the sum
\* of providerShares over all providers, and every share count is >= 0.
C3_SharesAreConserved ==
    /\ totalShares = SumOver(providerShares, Addr)
    /\ \A a \in Addr : providerShares[a] >= 0

\* Both users hold shares after one of them redeemed some.
C3_Witness ==
    /\ last.op = "remove_liquidity" /\ last.ok
    /\ providerShares["u1"] > 0 /\ providerShares["u2"] > 0

\* C4: every successful swap_a_for_b or swap_b_for_a (amountIn > 0, any fee
\* in 0..10000) leaves reserveA * reserveB >= its value before the swap.
C4_ProductNeverDecreases ==
    [][(last'.op \in {"swap_a_for_b", "swap_b_for_a"} /\ last'.ok)
          => reserveA' * reserveB' >= reserveA * reserveB]_vars

\* A swap without fee has paid out.
C4_Witness ==
    /\ last.op \in {"swap_a_for_b", "swap_b_for_a"} /\ last.ok
    /\ feeBps = 0 /\ last.amount > 0 /\ last.r1 > 0

\* C5: when tokens reach or leave the pool's address only through pool
\* operations, reserveA and reserveB equal the pool's balances in ledgers A and B.
C5_ReservesMatchLedger ==
    /\ reserveA = balances["A"][POOL]
    /\ reserveB = balances["B"][POOL]

\* A swap of B for A has completed and the pool still holds token A.
C5_Witness ==
    /\ last.op = "swap_b_for_a" /\ last.ok
    /\ reserveA > 0 /\ reserveA = balances["A"][POOL]

\* C6: every operation is all-or-nothing.  A panicked invocation leaves the
\* pool and both ledgers as they were (so an add_liquidity whose token B
\* transfer_from panics keeps no token A movement); an allowance is spent only
\* together with the balance it moves (a transfer_from short of balance keeps
\* no allowance decrement); a returned add_liquidity has moved both tokens.
C6_AllOrNothing ==
    [][/\ ~last'.ok =>
              UNCHANGED <<seq, tokAdmin, totalSupply, balances, allowances, poolAdmin,
                          tokenA, tokenB, reserveA, reserveB, totalShares,
                          providerShares, feeBps>>
       /\ \A t \in Tok, u \in Users :
              LET spent == AllowanceOf(t, <<u, POOL>>) - AllowanceOf(t, <<u, POOL>>)'
              IN  spent # 0 => /\ balances'[t][u] = balances[t][u] - spent
                               /\ balances'[t][POOL] = balances[t][POOL] + spent
       /\ (last'.op = "add_liquidity" /\ last'.ok) =>
              /\ balances'["A"][POOL] = balances["A"][POOL] + last'.amount
              /\ balances'["B"][POOL] = balances["B"][POOL] + last'.amount2
              /\ reserveA' = reserveA + last'.amount
              /\ reserveB' = reserveB + last'.amount2]_vars

\* An add_liquidity panicked in its token B transfer_from, on the balance
\* check, after its token A transfer_from had returned.
C6_Witness ==
    /\ last.op = "add_liquidity" /\ ~last.ok
    /\ last.at = "token_b.transfer_from" /\ last.err = "insufficient balance"

\* What add_liquidity(p, a, b, 0) followed at once by remove_liquidity of the
\* minted shares returns in the current state: ok is FALSE unless both return
\* and shares > 0 were minted.
AddThenRemove(p, a, b) ==
    LET add == add_liquidity(Cur, p, p, a, b, 0)
        rem == remove_liquidity(add.st, p, p, add.r1, 0, 0)
    IN  IF add.ok /\ add.r1 > 0 /\ rem.ok
        THEN [ok |-> TRUE, outA |-> rem.r1, outB |-> rem.r2]
        ELSE [ok |-> FALSE, outA |-> 0, outB |-> 0]

\* C10: in any reachable pool state, a successful add_liquidity(provider,
\* amountA, amountB, _) minting s > 0 shares, followed at once by
\* remove_liquidity(provider, s, 0, 0), returns outA <= amountA and outB <= amountB.
C10_RoundTripNeverGains ==
    \A p \in Users, a \in 1 .. MaxPoolAmt, b \in 1 .. MaxPoolAmt :
        LET rt == AddThenRemove(p, a, b)
        IN  rt.ok => rt.outA <= a /\ rt.outB <= b

\* After a swap, with shares outstanding, some round trip returns strictly
\* less of a token than was deposited.
C10_Witness ==
    /\ last.op \in {"swap_a_for_b", "swap_b_for_a"} /\ last.ok
    /\ totalShares > 0
    /\ \E p \in Users, a \in 1 .. MaxPoolAmt, b \in 1 .. MaxPoolAmt :
           LET rt == AddThenRemove(p, a, b)
           IN  rt.ok /\ (rt.outA < a \/ rt.outB < b)

\* C11: every successful remove_liquidity(provider, shares, _, _) pays out at
\* most the exact proportional claim, amountA * totalShares <= shares * reserveA
\* and amountB * totalShares <= shares * reserveB on the values before the
\* operation, and reduces reserveA, reserveB and totalShares by exactly
\* amountA, amountB and shares.
C11_RedeemAtMostProportional ==
    [][(last'.op = "remove_liquidity" /\ last'.ok) =>
          /\ last'.r1 * totalShares <= last'.amount * reserveA
          /\ last'.r2 * totalShares <= last'.amount * reserveB
          /\ reserveA' = reserveA - last'.r1
          /\ reserveB' = reserveB - last'.r2
          /\ totalShares' = totalShares - last'.amount]_vars

\* A redemption has paid strictly less token A than the exact proportion (the
\* values before it are the current ones plus what it took out).
C11_Witness ==
    /\ last.op = "remove_liquidity" /\ last.ok
    /\ last.r1 * (totalShares + last.amount) < last.amount * (reserveA + last.r1)

\* The number of shares the claim gives for a deposit of a and b (both > 0) in
\* the current state: the x with x * x <= a * b < (x + 1) * (x + 1) when
\* totalShares is 0, else the smaller of the two truncated proportions.
MintedFor(a, b) ==
    IF totalShares = 0
    THEN CHOOSE x \in 0 .. Max(a, b) : x * x <= a * b /\ a * b < (x + 1) * (x + 1)
    ELSE Min((a * totalShares) \div reserveA, (b * totalShares) \div reserveB)

\* C12: a successful add_liquidity mints integerSqrt(amountA * amountB) shares
\* when totalShares = 0 (100 and 400 into an empty pool mint 200) and
\* min(amountA * totalShares / reserveA, amountB * totalShares / reserveB),
\* truncated, otherwise; it fails with "insufficient shares minted", changing
\* nothing, when that number is below minShares; on success amountA, amountB
\* and the minted shares are added to reserveA, reserveB, totalShares and the
\* provider's shares.
C12_MintedShares ==
    [][/\ \A p \in Users, a \in DepositAmounts, b \in DepositAmounts, m \in DepositMins :
              (a > 0 /\ b > 0) =>
                  LET res == add_liquidity(Cur, p, p, a, b, m)
                  IN  /\ MintedFor(a, b) < m =>
                             /\ ~res.ok /\ res.err = "insufficient shares minted"
                             /\ res.st = Cur /\ Commit(Cur, res) = Cur
                      /\ res.ok => res.r1 = MintedFor(a, b)
       /\ (last'.op = "add_liquidity" /\ last'.ok) =>
              /\ last'.r1 = MintedFor(last'.amount, last'.amount2)
              /\ last'.r1 >= last'.min
              /\ (totalShares = 0 /\ last'.amount = 100 /\ last'.amount2 = 400)
                     => last'.r1 = 200
              /\ reserveA' = reserveA + last'.amount
              /\ reserveB' = reserveB + last'.amount2
              /\ totalShares' = totalShares + last'.r1
              /\ providerShares' = [providerShares EXCEPT
                                       ![last'.from] = @ + last'.r1]]_vars

\* A second deposit, of 100 and 100, into the pool that the deposit of 100 and
\* 400 created with 200 shares: it minted 50, the smaller proportion.
C12_Witness ==
    /\ last.op = "add_liquidity" /\ last.ok
    /\ last.amount = 100 /\ last.amount2 = 100 /\ last.r1 = 50
    /\ reserveA = 200 /\ reserveB = 500 /\ totalShares = 250

\* What both forms of C13 share: in a state with a zero reserve every swap
\* panics before any write, and the step of a swap changes nothing.  The
\* message is "pool has no liquidity"; when amountFirst, it is "amount must be
\* positive" for an amount <= 0.
EmptyPoolSwaps(amountFirst) ==
    /\ (reserveA = 0 \/ reserveB = 0) =>
           \A u \in Users, x \in PoolAmounts, m \in MinChoices :
               LET ab == swap_a_for_b(Cur, u, u, x, m)
                   ba == swap_b_for_a(Cur, u, u, x, m)
                   err == IF amountFirst /\ x <= 0 THEN "amount must be positive"
                          ELSE "pool has no liquidity"
               IN  /\ ~ab.ok /\ ab.err = err /\ ab.st = Cur
                   /\ ~ba.ok /\ ba.err = err /\ ba.st = Cur
    /\ ((reserveA = 0 \/ reserveB = 0) /\ last'.op \in {"swap_a_for_b", "swap_b_for_a"}) =>
           /\ ~last'.ok
           /\ UNCHANGED <<seq, tokAdmin, totalSupply, balances, allowances, poolAdmin,
                           tokenA, tokenB, reserveA, reserveB, totalShares,
                           providerShares, feeBps>>

\* C13 as stated: swap_a_for_b or swap_b_for_a called when reserveA = 0 or
\* reserveB = 0 fails with "pool has no liquidity" and changes no pool state and
\* no ledger balance or allowance.
C13_EmptyPoolSwapFailsPoolEmpty == [][EmptyPoolSwaps(FALSE)]_vars

\* C13 as amended: such a swap fails and changes nothing; the failure is "pool
\* has no liquidity" when amountIn > 0 and "amount must be positive" when
\* amountIn <= 0, which is checked first.
C13_EmptyPoolSwapFails == [][EmptyPoolSwaps(TRUE)]_vars

\* A swap was refused on the empty pool for its lack of liquidity.
C13_Witness ==
    /\ last.op \in {"swap_a_for_b", "swap_b_for_a"} /\ ~last.ok
    /\ last.err = "pool has no liquidity"
    /\ reserveA = 0 /\ reserveB = 0

\* The quotient the claim gives, written out; its product must fit the
\* checker's integers.
PayoutQuotient(a, ri, ro, f) ==
    (a * (10000 - f) * ro) \div (ri * 10000 + a * (10000 - f))

\* C14: for amountIn > 0, reserveIn > 0, reserveOut > 0 and feeBps in 0..10000
\* the amount a swap pays out is the truncated quotient
\* (amountIn * (10000 - feeBps) * reserveOut) /
\* (reserveIn * 10000 + amountIn * (10000 - feeBps)),
\* and getAmountOut(1000, 10000, 10000, 30) = 906.
C14_AmountOutIsQuotient ==
    [][/\ last'.op = "get_amount_out" =>
              /\ (last'.amount <= MaxCalcIn /\ last'.min <= MaxCalcIn) =>
                     last'.r1 = PayoutQuotient(last'.amount, last'.amount2, last'.min, feeBps)
              /\ (last'.amount = 1000 /\ last'.amount2 = 10000 /\ last'.min = 10000
                      /\ feeBps = 30) => last'.r1 = 906
       /\ (last'.op = "swap_a_for_b" /\ last'.ok) =>
              /\ last'.r1 = PayoutQuotient(last'.amount, reserveA, reserveB, feeBps)
              /\ balances'["B"][last'.from] = balances["B"][last'.from] + last'.r1
       /\ (last'.op = "swap_b_for_a" /\ last'.ok) =>
              /\ last'.r1 = PayoutQuotient(last'.amount, reserveB, reserveA, feeBps)
              /\ balances'["A"][last'.from] = balances["A"][last'.from] + last'.r1]_vars

\* get_amount_out was applied to the documented example and returned 906.
C14_Witness ==
    /\ last.op = "get_amount_out" /\ last.ok /\ feeBps = 30
    /\ last.amount = 1000 /\ last.amount2 = 10000 /\ last.min = 10000
    /\ last.r1 = 906

\* C15: integerSqrt(y) terminates for every y >= 0 and returns the x >= 0 with
\* x * x <= y < (x + 1) * (x + 1) (0 -> 0, 1 -> 1, 15 -> 3, 16 -> 4); it fails
\* with "negative sqrt" for every y < 0.
C15_SqrtIsFloor ==
    [][last'.op = "sqrt" =>
          IF last'.amount >= 0
          THEN /\ last'.ok /\ last'.r1 >= 0
               /\ last'.r1 * last'.r1 <= last'.amount
               /\ last'.amount < (last'.r1 + 1) * (last'.r1 + 1)
          ELSE ~last'.ok /\ last'.err = "negative sqrt"]_vars

\* The contract state after the step, as the entry points read it.
Nxt ==
    [seq |-> seq', tokAdmin |-> tokAdmin', totalSupply |-> totalSupply',
     balances |-> balances', allowances |-> allowances',
     poolAdmin |-> poolAdmin', tokenA |-> tokenA', tokenB |-> tokenB',
     reserveA |-> reserveA', reserveB |-> reserveB', totalShares |-> totalShares',
     providerShares |-> providerShares', feeBps |-> feeBps']

\* C16: mint succeeds only when the caller is the ledger's admin at the time
\* of the call and amount > 0; a mint by anyone else fails and leaves the
\* state as it was; after a successful set_admin(new_admin) a mint by the
\* former admin fails and a mint by new_admin succeeds.
C16_MintOnlyByAdmin ==
    [][/\ \A c \in Users, to \in Users, x \in Amounts :
            LET res == mint(Cur, "A", c, to, x)
            IN  /\ res.ok <=> (tokAdmin["A"] # NoAddr /\ c = tokAdmin["A"] /\ x > 0)
                /\ ~res.ok => res.st = Cur /\ Commit(Cur, res) = Cur
       /\ (last'.op = "mint" /\ last'.ok) =>
              /\ last'.caller = tokAdmin["A"]
              /\ last'.amount > 0
              /\ balances'["A"][last'.to] = balances["A"][last'.to] + last'.amount
              /\ totalSupply'["A"] = totalSupply["A"] + last'.amount
       /\ (last'.op = "mint" /\ ~last'.ok) => Nxt = Cur
       /\ (last'.op = "set_admin" /\ last'.ok) =>
              /\ last'.caller = tokAdmin["A"]
              /\ tokAdmin'["A"] = last'.to
              /\ \A to \in Users, x \in 1 .. MaxAmt :
                    /\ mint(Nxt, "A", last'.to, to, x).ok
                    /\ last'.caller # last'.to => ~mint(Nxt, "A", last'.caller, to, x).ok
      ]_vars

\* The admin has handed the ledger over to the other user, who has not minted
\* yet while the former admin had.
C16_Witness ==
    /\ last.op = "set_admin" /\ last.ok
    /\ last.caller = "u1" /\ last.to = "u2"
    /\ tokAdmin["A"] = "u2"
    /\ totalSupply["A"] > 0

\* C17: initialize is one-time on both components: on an initialized pool or
\* ledger it fails and changes nothing; the pool's first initialize sets
\* reserveA, reserveB and totalShares to 0 and the ledger's sets totalSupply
\* to 0; the pool's admin, tokenA, tokenB and feeBps keep their initialized
\* values through every later operation.
C17_InitializeOnce ==
    [][/\ \A t \in Tok, a \in Users :
            LET res == token_initialize(Cur, t, a)
            IN  /\ res.ok <=> tokAdmin[t] = NoAddr
                /\ ~res.ok => res.st = Cur /\ Commit(Cur, res) = Cur
       /\ \A a \in Users, f \in DeployFees :
            LET res == swap_initialize(Cur, a, "A", "B", f)
            IN  /\ res.ok <=> poolAdmin = NoAddr
                /\ ~res.ok => res.st = Cur /\ Commit(Cur, res) = Cur
       /\ (last'.op = "token_initialize" /\ last'.ok) =>
              /\ tokAdmin[last'.tok] = NoAddr
              /\ tokAdmin'[last'.tok] = last'.caller
              /\ totalSupply'[last'.tok] = 0
       /\ (last'.op = "swap_initialize" /\ last'.ok) =>
              /\ poolAdmin = NoAddr
              /\ poolAdmin' = last'.caller /\ feeBps' = last'.amount
              /\ tokenA' = "A" /\ tokenB' = "B"
              /\ reserveA' = 0 /\ reserveB' = 0 /\ totalShares' = 0
       /\ (last'.op \in {"token_initialize", "swap_initialize"} /\ ~last'.ok) => Nxt = Cur
       /\ poolAdmin # NoAddr =>
              /\ poolAdmin' = poolAdmin /\ feeBps' = feeBps
              /\ tokenA' = tokenA /\ tokenB' = tokenB
      ]_vars

\* A second initialize of the pool, by the other user and with another fee,
\* has failed on a pool that holds liquidity.
C17_Witness ==
    /\ last.op = "swap_initialize" /\ ~last.ok /\ last.err = "already initialized"
    /\ poolAdmin = "u1" /\ feeBps = 30
    /\ reserveA > 0 /\ totalShares > 0

\* C18: get_price_a_to_b(x) and get_price_b_to_a(x) never fail and never
\* change state; they return 0 when either reserve is zero, and otherwise
\* the amount out that the swap of x in the same direction computes.
C18_QuoteNeverFails ==
    [][/\ last'.op = "get_price_a_to_b" =>
              /\ last'.ok /\ Nxt = Cur
              /\ (reserveA = 0 \/ reserveB = 0) => last'.r1 = 0
              /\ (reserveA # 0 /\ reserveB # 0) =>
                     /\ last'.r1 = get_amount_out(last'.amount, reserveA, reserveB, feeBps)
                     /\ \A u \in Users :
                            LET res == swap_a_for_b(Cur, u, u, last'.amount, 0)
                            IN  res.ok => res.r1 = last'.r1
       /\ last'.op = "get_price_b_to_a" =>
              /\ last'.ok /\ Nxt = Cur
              /\ (reserveA = 0 \/ reserveB = 0) => last'.r1 = 0
              /\ (reserveA # 0 /\ reserveB # 0) =>
                     /\ last'.r1 = get_amount_out(last'.amount, reserveB, reserveA, feeBps)
                     /\ \A u \in Users :
                            LET res == swap_b_for_a(Cur, u, u, last'.amount, 0)
                            IN  res.ok => res.r1 = last'.r1
      ]_vars

\* The state a swap of x of token `tin` for token `tout` by u has reached
\* when it stops at the call site `at`, or when it returns (at = "").
SwapReached(res, u, x, tin, tout, rin, rout) ==
    LET out == get_amount_out(x, rin, rout, feeBps)
        pulled == /\ res.st.balances[tin][POOL] = balances[tin][POOL] + x
                  /\ res.st.balances[tin][u] = balances[tin][u] - x
        stored == /\ (IF tin = "A" THEN res.st.reserveA ELSE res.st.reserveB) = rin + x
                  /\ (IF tin = "A" THEN res.st.reserveB ELSE res.st.reserveA) = rout - out
    IN  /\ (~res.ok /\ res.at = "") => res.st = Cur
        /\ (~res.ok /\ res.at \in {"token_a.transfer_from", "token_b.transfer_from"}) =>
               /\ res.st.reserveA = reserveA /\ res.st.reserveB = reserveB
               /\ res.st.balances = balances
        /\ (~res.ok /\ res.at \in {"token_a.transfer", "token_b.transfer"}) =>
               /\ pulled /\ stored
               /\ res.st.balances[tout] = balances[tout]
        /\ res.ok =>
               /\ pulled /\ stored
               /\ res.st.balances[tout][POOL] = balances[tout][POOL] - out
               /\ res.st.balances[tout][u] = balances[tout][u] + out

\* The state a withdrawal of n shares by p has reached when it stops at a
\* payout call, or when it returns.
RedeemReached(res, p, n) ==
    LET a == TruncDiv(n * reserveA, totalShares)
        b == TruncDiv(n * reserveB, totalShares)
        reduced == /\ res.st.reserveA = reserveA - a
                   /\ res.st.reserveB = reserveB - b
                   /\ res.st.totalShares = totalShares - n
                   /\ res.st.providerShares[p] = providerShares[p] - n
    IN  /\ (~res.ok /\ res.at = "") => res.st = Cur
        /\ (~res.ok /\ res.at = "token_a.transfer") =>
               reduced /\ res.st.balances = balances
        /\ (~res.ok /\ res.at = "token_b.transfer") =>
               /\ reduced
               /\ res.st.balances["A"][p] = balances["A"][p] + a
               /\ res.st.balances["B"] = balances["B"]
        /\ res.ok =>
               /\ reduced
               /\ res.st.balances["A"][p] = balances["A"][p] + a
               /\ res.st.balances["B"][p] = balances["B"][p] + b

\* C19: within every swap the input is pulled by transfer_from first, then
\* both reserves are updated, then the payout transfer is invoked, so the
\* payout is invoked on a state whose reserves hold their post-swap values;
\* within remove_liquidity reserves and shares are reduced before either
\* payout transfer is invoked.
C19_PayoutAfterReserves ==
    /\ \A u \in Users, x \in PoolAmounts, m \in MinChoices :
          /\ SwapReached(swap_a_for_b(Cur, u, u, x, m), u, x, "A", "B", reserveA, reserveB)
          /\ SwapReached(swap_b_for_a(Cur, u, u, x, m), u, x, "B", "A", reserveB, reserveA)
    /\ \A p \in Users, n \in PoolAmounts, m \in MinChoices :
          RedeemReached(remove_liquidity(Cur, p, p, n, m, m), p, n)

\* A swap of token A has pulled its input and stored the reserves, and then
\* stopped in the payout transfer.
C19_Witness ==
    /\ last.op = "swap_a_for_b" /\ ~last.ok /\ last.at = "token_b.transfer"
    /\ reserveA > 0 /\ reserveB > 0

\* C20: solvency under arbitrary callers: in every state reached by any
\* interleaving of pool operations and direct ledger operations called by
\* addresses other than the pool, with any integer amounts, the pool's
\* balance of token A is at least reserveA and its balance of token B is at
\* least reserveB.
C20_PoolSolvent ==
    /\ balance(Cur, "A", POOL) >= reserveA
    /\ balance(Cur, "B", POOL) >= reserveB

\* C21: totalSupply of a ledger never increases except through a successful
\* mint: burn, burn_from, transfer, transfer_from, approve and set_admin,
\* with any integer amounts, either fail or leave totalSupply less than or
\* equal to its previous value.
C21_SupplyGrowsOnlyByMint ==
    [][\A t \in Tok :
          /\ last'.op \in {"burn", "burn_from", "transfer", "transfer_from",
                            "approve", "set_admin"}
                 => totalSupply'[t] <= totalSupply[t]
          /\ totalSupply'[t] > totalSupply[t]
                 => last'.op = "mint" /\ last'.ok /\ last'.tok = t
      ]_vars

\* C22: in every state reached by pool operations, totalShares, reserveA and
\* reserveB are either all zero or all strictly positive; hence no swap
\* leaves a reserve at zero or below, and the divisions by reserveA and
\* reserveB in add_liquidity and by totalShares in remove_liquidity are never
\* evaluated with a zero divisor.
C22_AllZeroOrAllPositive ==
    /\ \/ totalShares = 0 /\ reserveA = 0 /\ reserveB = 0
       \/ totalShares > 0 /\ reserveA > 0 /\ reserveB > 0
    /\ last.op \in {"swap_a_for_b", "swap_b_for_a"} /\ last.ok
           => reserveA > 0 /\ reserveB > 0
    /\ \A p \in Users, x \in PoolAmounts, y \in PoolAmounts, m \in MinChoices :
           /\ add_liquidity(Cur, p, p, x, y, m).err # "divide by zero"
           /\ remove_liquidity(Cur, p, p, x, m, m).err # "divide by zero"

\* A swap has taken all but one token B out of a pool that held more.
C22_Witness ==
    /\ last.op = "swap_a_for_b" /\ last.ok /\ last.r1 > 0
    /\ reserveB = 1 /\ reserveA > 1 /\ totalShares > 0

\* A swap whose amount out is 0 has failed; when it got as far as the payout,
\* it is the ledger's transfer that rejected the amount.
ZeroSwapAborts(res, out, payout) ==
    out = 0 =>
        /\ ~res.ok /\ Commit(Cur, res) = Cur
        /\ res.at \notin {"", "token_a.transfer_from", "token_b.transfer_from"} =>
               res.at = payout /\ res.err = "amount must be positive"

\* C23: the pool never completes a zero payout: a swap whose amount out is 0
\* and a remove_liquidity whose amount of token A or of token B is 0 abort
\* with no state change even when the caller's minimum amounts are 0, because
\* the ledger's transfer rejects a non-positive amount; so a provider cannot
\* redeem shares > 0 where shares * reserve / totalShares truncates to 0 for
\* either token.
C23_NoZeroPayout ==
    /\ \A u \in Users, x \in PoolAmounts \ {0}, m \in MinChoices :
          (reserveA # 0 /\ reserveB # 0) =>
             /\ ZeroSwapAborts(swap_a_for_b(Cur, u, u, x, m),
                               get_amount_out(x, reserveA, reserveB, feeBps),
                               "token_b.transfer")
             /\ ZeroSwapAborts(swap_b_for_a(Cur, u, u, x, m),
                               get_amount_out(x, reserveB, reserveA, feeBps),
                               "token_a.transfer")
    /\ \A p \in Users, n \in PoolAmounts \ {0} :
          (providerShares[p] >= n /\ totalShares > 0) =>
             LET a == TruncDiv(n * reserveA, totalShares)
                 b == TruncDiv(n * reserveB, totalShares)
                 res == remove_liquidity(Cur, p, p, n, 0, 0)
             IN  (a = 0 \/ b = 0) =>
                    /\ ~res.ok /\ Commit(Cur, res) = Cur
                    /\ res.err = "amount must be positive"
                    /\ res.at = (IF a = 0 THEN "token_a.transfer" ELSE "token_b.transfer")
    /\ (last.op \in {"swap_a_for_b", "swap_b_for_a"} /\ last.ok) => last.r1 > 0
    /\ (last.op = "remove_liquidity" /\ last.ok) => last.r1 > 0 /\ last.r2 > 0

\* A provider who holds shares has asked for a withdrawal that was stopped by
\* the ledger's rejection of a payout of 0.
C23_Witness ==
    /\ last.op = "remove_liquidity" /\ ~last.ok
    /\ last.at \in {"token_a.transfer", "token_b.transfer"}
    /\ last.err = "amount must be positive"
    /\ \E p \in Users : providerShares[p] > 0

====
